---- MODULE Spec2Model ----
(***************************************************************************)
(* A model of ferro: the Playbook / Task execution driver (src/ferro.rs),  *)
(* its path lookup `find`, the lazy resolvers (src/lazy.rs), the           *)
(* conditions (src/when.rs) and the Command and CloudFormation modules.    *)
(*                                                                         *)
(* Text (Rust String / &str) is a sequence of characters, each character a *)
(* one-element TLA+ string, so that splitting, formatting and parsing are  *)
(* computed and not assumed.  The token "sup2" stands for the character    *)
(* U+00B2 (SUPERSCRIPT TWO), "LF" for the line feed and "{}" for a         *)
(* placeholder of a format template.                                       *)
(***************************************************************************)
EXTENDS Integers, Sequences, FiniteSets, TLC

(***************************************************************************)
(* Bounds                                                                  *)
(***************************************************************************)
\* longest path string enumerated exhaustively for find
MaxPathLen == 3
\* longest task list of a playbook
MaxTasks == 3
\* largest number of status polls of one wait_for_stack loop that is explored
MaxPolls == 2
\* longest task list of the playbooks whose runs are followed to their end
MaxLiveTasks == 2

(***************************************************************************)
(* serde_json::Value                                                       *)
(***************************************************************************)
VNull == [t |-> "Null"]
VBool(b) == [t |-> "Bool", b |-> b]
VNumber(n) == [t |-> "Number", n |-> n]
VString(s) == [t |-> "String", s |-> s]
VArray(a) == [t |-> "Array", a |-> a]
\* an Object is its entries <<key, value>> in key order, keys distinct
VObject(o) == [t |-> "Object", o |-> o]

IsScalar(v) == v.t \in {"Null", "Bool", "Number", "String"}

\* o.get(key) of a serde_json Map
ObjectHas(o, key) == \E i \in 1..Len(o) : o[i][1] = key
ObjectGet(o, key) == o[CHOOSE i \in 1..Len(o) : o[i][1] = key][2]

(***************************************************************************)
(* Result<_, ferro::Error>, plus the outcome in which the call does not    *)
(* return because the thread panics.                                       *)
(***************************************************************************)
Ok(v) == [k |-> "Ok", v |-> v]
Err(e) == [k |-> "Err", e |-> e]
Panic == [k |-> "Panic"]

\* ferro::error(changed, description)
error(changed, description) == [changed |-> changed, description |-> description]

(***************************************************************************)
(* Characters and integer parsing                                          *)
(***************************************************************************)
AsciiDigits == {"0", "1", "2", "3", "4", "5", "6", "7", "8", "9"}
\* characters of the model for which char::is_numeric is true but which are
\* not ASCII digits
OtherNumerics == {"sup2"}

\* char::is_numeric
is_numeric(c) == c \in AsciiDigits \cup OtherNumerics

DigitVal(c) ==
  CASE c = "0" -> 0 [] c = "1" -> 1 [] c = "2" -> 2 [] c = "3" -> 3
    [] c = "4" -> 4 [] c = "5" -> 5 [] c = "6" -> 6 [] c = "7" -> 7
    [] c = "8" -> 8 [] c = "9" -> 9

\* usize::MAX on a 64-bit target, 18446744073709551615, as digits
UsizeMaxDigits ==
  <<"1","8","4","4","6","7","4","4","0","7","3","7","0","9","5","5","1","6","1","5">>

RECURSIVE StripZeros(_)
StripZeros(s) ==
  IF Len(s) > 1 /\ Head(s) = "0" THEN StripZeros(Tail(s)) ELSE s

\* a and b digit strings of the same length: a > b as numbers
RECURSIVE DigitsGreater(_, _)
DigitsGreater(a, b) ==
  IF a = <<>> THEN FALSE
  ELSE IF DigitVal(Head(a)) > DigitVal(Head(b)) THEN TRUE
  ELSE IF DigitVal(Head(a)) < DigitVal(Head(b)) THEN FALSE
  ELSE DigitsGreater(Tail(a), Tail(b))

RECURSIVE DigitsToNat(_, _)
DigitsToNat(s, acc) ==
  IF s = <<>> THEN acc ELSE DigitsToNat(Tail(s), acc * 10 + DigitVal(Head(s)))

\* str::parse::<usize>: Err on the empty string, on a character that is not
\* an ASCII digit and on a number above usize::MAX.  An index of ten digits
\* or more that fits usize is reported as 10^9, which is past the end of every
\* array of the model, so that Vec::get answers None for it as for the number.
ParseUsize(s) ==
  IF s = <<>> THEN [ok |-> FALSE, why |-> "Empty"]
  ELSE IF \E i \in 1..Len(s) : s[i] \notin AsciiDigits
    THEN [ok |-> FALSE, why |-> "InvalidDigit"]
  ELSE LET d == StripZeros(s) IN
    IF Len(d) > Len(UsizeMaxDigits)
         \/ (Len(d) = Len(UsizeMaxDigits) /\ DigitsGreater(d, UsizeMaxDigits))
      THEN [ok |-> FALSE, why |-> "PosOverflow"]
    ELSE IF Len(d) > 9 THEN [ok |-> TRUE, n |-> 1000000000]
    ELSE [ok |-> TRUE, n |-> DigitsToNat(d, 0)]

(***************************************************************************)
(* find (src/ferro.rs)                                                     *)
(***************************************************************************)
\* path.split('.') : always at least one segment, empty segments are kept
RECURSIVE Split(_)
Split(s) ==
  IF \E i \in 1..Len(s) : s[i] = "."
    THEN LET i == CHOOSE j \in 1..Len(s) :
                    s[j] = "." /\ \A h \in 1..(j - 1) : s[h] # "."
         IN <<SubSeq(s, 1, i - 1)>> \o Split(SubSeq(s, i + 1, Len(s)))
    ELSE <<s>>

NotFoundPrefix ==
  <<"v","a","l","u","e"," ","n","o","t"," ","f","o","u","n","d"," ",
    "a","t"," ","p","a","t","h"," ">>
NotArrayIndexPrefix ==
  <<"a","r","r","a","y"," ","i","n","d","e","x"," ","m","u","s","t"," ",
    "b","e"," ","n","u","m","e","r","i","c"," ","a","t"," ","p","a","t","h"," ">>

not_found(path) == NotFoundPrefix \o path
not_array_index(path) == NotArrayIndexPrefix \o path

\* variant: a scalar met with segments left is an error
RECURSIVE innerStrict(_, _, _)
innerStrict(path, parts, obj) ==
  IF parts = <<>> THEN Ok(obj)
  ELSE LET first == Head(parts)
           rest == Tail(parts)
       IN CASE IsScalar(obj) -> Err(error(FALSE, not_found(path)))
            [] obj.t = "Array" ->
                 IF \A n \in 1..Len(first) : is_numeric(first[n])
                   THEN LET index == ParseUsize(first) IN
                        IF ~index.ok THEN Panic
                        ELSE IF index.n < Len(obj.a)
                          THEN innerStrict(path, rest, obj.a[index.n + 1])
                          ELSE Err(error(FALSE, not_found(path)))
                   ELSE Err(error(FALSE, not_array_index(path)))
            [] obj.t = "Object" ->
                 IF ObjectHas(obj.o, first)
                   THEN innerStrict(path, rest, ObjectGet(obj.o, first))
                   ELSE Err(error(FALSE, not_found(path)))

RECURSIVE inner(_, _, _)
inner(path, parts, obj) ==
  IF parts = <<>> THEN Ok(obj)
  ELSE LET first == Head(parts)
           rest == Tail(parts)
       IN CASE IsScalar(obj) -> Ok(obj)
            [] obj.t = "Array" ->
                 IF \A n \in 1..Len(first) : is_numeric(first[n])
                   THEN LET index == ParseUsize(first) IN
                        IF ~index.ok THEN Panic
                        ELSE IF index.n < Len(obj.a)
                          THEN inner(path, rest, obj.a[index.n + 1])
                          ELSE Err(error(FALSE, not_found(path)))
                   ELSE Err(error(FALSE, not_array_index(path)))
            [] obj.t = "Object" ->
                 IF ObjectHas(obj.o, first)
                   THEN inner(path, rest, ObjectGet(obj.o, first))
                   ELSE Err(error(FALSE, not_found(path)))

\* variant: the first segment is taken for the name of the root and skipped
findSkipFirst(path, obj) == inner(path, Tail(Split(path)), obj)

find(path, obj) == inner(path, Split(path), obj)

(***************************************************************************)
(* Lazy resolvers (src/lazy.rs).  A resolver is a closure over the         *)
(* Context; it is represented by the expression that built it and is       *)
(* evaluated by Eval.                                                      *)
(***************************************************************************)
\* lazy::string(s)
string(s) == [op |-> "string", s |-> s]
\* lazy::var(path)
var(path) == [op |-> "var", path |-> path]
\* lazy::state(task_description, path)
state(task_description, path) ==
  [op |-> "state", task_description |-> task_description, path |-> path]
\* lazy::with_default(f, default)
with_default(f, default) == [op |-> "with_default", f |-> f, default |-> default]
\* lazy_format!(s, args...): s is the template, "{}" its placeholders
lazy_format(s, args) == [op |-> "lazy_format", s |-> s, args |-> args]

\* format!(s, args...) for a template whose placeholders are all "{}"
RECURSIVE Format(_, _)
Format(s, args) ==
  IF s = <<>> THEN <<>>
  ELSE IF Head(s) = "{}" THEN Head(args) \o Format(Tail(s), Tail(args))
  ELSE <<Head(s)>> \o Format(Tail(s), args)

\* HashMap::get on context.vars / context.state
MapHas(m, key) == key \in DOMAIN m
\* variant: the map is replaced by the one entry
MapInsertOnly(m, key, v) == [d \in {key} |-> v]

\* variant: an existing entry is kept (entry().or_insert)
MapInsertKeep(m, key, v) ==
  [d \in DOMAIN m \cup {key} |-> IF d \in DOMAIN m THEN m[d] ELSE v]

\* HashMap::insert
MapInsert(m, key, v) ==
  [d \in DOMAIN m \cup {key} |-> IF d = key THEN v ELSE m[d]]
EmptyMap == [d \in {} |-> VNull]

\* variant: with_default evaluates the default before it looks at the value
RECURSIVE EvalEager(_, _)
EvalEager(f, context) ==
  CASE f.op = "string" -> Ok(f.s)
    [] f.op = "var" ->
         IF MapHas(context.vars, f.path) THEN Ok(context.vars[f.path]) ELSE Ok(<<>>)
    [] f.op = "state" ->
         IF MapHas(context.state, f.task_description)
           THEN LET r == find(f.path, context.state[f.task_description]) IN
                IF r.k = "Panic" THEN Panic
                ELSE IF r.k = "Ok" /\ r.v.t = "String" THEN Ok(r.v.s)
                ELSE Ok(<<>>)
           ELSE Ok(<<>>)
    [] f.op = "with_default" ->
         LET value == EvalEager(f.f, context)
             dflt == EvalEager(f.default, context)
         IN IF value.k = "Panic" \/ dflt.k = "Panic" THEN Panic
            ELSE IF value.v # <<>> THEN value
            ELSE dflt
    [] f.op = "lazy_format" ->
         LET vals == [i \in 1..Len(f.args) |-> EvalEager(f.args[i], context)] IN
         IF \E i \in 1..Len(vals) : vals[i].k = "Panic" THEN Panic
         ELSE Ok(Format(f.s, [i \in 1..Len(vals) |-> vals[i].v]))

\* the call f(context) of a resolver: Ok(text), or Panic when find panics
RECURSIVE Eval(_, _)
Eval(f, context) ==
  CASE f.op = "string" -> Ok(f.s)
    [] f.op = "var" ->
         IF MapHas(context.vars, f.path) THEN Ok(context.vars[f.path]) ELSE Ok(<<>>)
    [] f.op = "state" ->
         IF MapHas(context.state, f.task_description)
           THEN LET r == find(f.path, context.state[f.task_description]) IN
                IF r.k = "Panic" THEN Panic
                ELSE IF r.k = "Ok" /\ r.v.t = "String" THEN Ok(r.v.s)
                ELSE Ok(<<>>)
           ELSE Ok(<<>>)
    [] f.op = "with_default" ->
         LET value == Eval(f.f, context) IN
         IF value.k = "Panic" THEN Panic
         ELSE IF value.v # <<>> THEN value
         ELSE Eval(f.default, context)
    [] f.op = "lazy_format" ->
         LET vals == [i \in 1..Len(f.args) |-> Eval(f.args[i], context)] IN
         IF \E i \in 1..Len(vals) : vals[i].k = "Panic" THEN Panic
         ELSE Ok(Format(f.s, [i \in 1..Len(vals) |-> vals[i].v]))

(***************************************************************************)
(* Text constants of the sources and of the enumerated inputs              *)
(***************************************************************************)
\* NullModule::name, modules::command::COMMAND, cloudformation::CLOUDFORMATION
NullName == <<"n","u","l","l">>
COMMAND == <<"c","o","m","m","a","n","d">>
CLOUDFORMATION == <<"c","l","o","u","d","f","o","r","m","a","t","i","o","n">>
\* name of a Module implemented outside the crate
CustomName == <<"c","u","s","t","o","m">>

\* field names of the serialized structs
K_exit_status == <<"e","x","i","t","_","s","t","a","t","u","s">>
K_stdout == <<"s","t","d","o","u","t">>
K_stderr == <<"s","t","d","e","r","r">>
K_stdout_lines == <<"s","t","d","o","u","t","_","l","i","n","e","s">>
K_stderr_lines == <<"s","t","d","e","r","r","_","l","i","n","e","s">>
K_outputs == <<"o","u","t","p","u","t","s">>
K_module == <<"m","o","d","u","l","e">>
K_succeeded == <<"s","u","c","c","e","e","d","e","d">>
K_changed == <<"c","h","a","n","g","e","d">>
K_error == <<"e","r","r","o","r">>
K_output == <<"o","u","t","p","u","t">>
K_type == <<"t","y","p","e">>

\* task descriptions of the enumerated playbooks
D1 == <<"d","1">>
D2 == <<"d","2">>

(***************************************************************************)
(* Option, Response, Output and TaskResult (src/ferro.rs)                  *)
(***************************************************************************)
None == [k |-> "None"]
Some(v) == [k |-> "Some", v |-> v]

\* ferro::response(changed, output)
response(changed, output) == [changed |-> changed, output |-> output]
\* ferro::result_response / ferro::result_error
result_response(changed, output) == Ok(response(changed, output))
result_error(changed, description) == Err(error(changed, description))

\* impl fmt::Display for ferro::Error, through ToString
ErrorToString(e) == e.description

\* the Output values: NullOutput, command::Output, cloudformation::Output and
\* an Output implemented outside the crate, whose to_value and Serialize
\* results are its own
NullOutput == [type |-> "NullOutput"]
CommandOutput(exit_status, out, err, out_lines, err_lines) ==
  [type |-> "command::Output", exit_status |-> exit_status, stdout |-> out,
   stderr |-> err, stdout_lines |-> out_lines, stderr_lines |-> err_lines]
CfOutput(outputs) == [type |-> "cloudformation::Output", outputs |-> outputs]
CustomOutput(value, ser) == [type |-> "custom", value |-> value, ser |-> ser]

StringArray(lines) == VArray([i \in 1..Len(lines) |-> VString(lines[i])])

\* the fields of an Output as serde writes them, in key order
OutputFields(o) ==
  CASE o.type = "command::Output" ->
         << <<K_exit_status, VNumber(o.exit_status)>>,
            <<K_stderr, VString(o.stderr)>>,
            <<K_stderr_lines, StringArray(o.stderr_lines)>>,
            <<K_stdout, VString(o.stdout)>>,
            <<K_stdout_lines, StringArray(o.stdout_lines)>> >>
    [] o.type = "cloudformation::Output" ->
         << <<K_outputs, VObject(o.outputs)>> >>

\* Output::to_value: serde_json::to_value(self)
to_value(o) ==
  CASE o.type = "NullOutput" -> Ok(VNull)
    [] o.type \in {"command::Output", "cloudformation::Output"} ->
         Ok(VObject(OutputFields(o)))
    [] o.type = "custom" -> o.value

\* TaskResult
TaskResult(module, succeeded, changed, err, output) ==
  [module |-> module, succeeded |-> succeeded, changed |-> changed,
   error |-> err, output |-> output]

(***************************************************************************)
(* Conditions (src/when.rs) and the processes they and Command spawn       *)
(***************************************************************************)
Always == [kind |-> "Always"]
Never == [kind |-> "Never"]
WhenExecute(command, args) == [kind |-> "WhenExecute", command |-> command, args |-> args]

\* bytes captured from a pipe: valid UTF-8 text, or not
Utf8(s) == [utf8 |-> TRUE, s |-> s]
NotUtf8 == [utf8 |-> FALSE]

\* io::Result<process::Output> of spawn().and_then(wait_with_output):
\* code is ExitStatus::code(), None when a signal ended the process
Exited(code, out, err) == [k |-> "Ok", code |-> code, stdout |-> out, stderr |-> err]
IoError(text) == [k |-> "Err", text |-> text]

\* ExitStatus::success
success(proc) == proc.code = Some(0)

\* texts of errors produced outside the crate
ENOENT == <<"E","N","O","E","N","T">>
Utf8ErrorText == <<"i","n","v","a","l","i","d"," ","u","t","f","-","8">>

\* the outcomes of a spawned process that are enumerated
ProcOutcomes ==
  { IoError(ENOENT),
    Exited(Some(0), Utf8(<<"o", "LF">>), Utf8(<<>>)),
    Exited(Some(0), NotUtf8, Utf8(<<>>)),
    Exited(Some(1), Utf8(<<>>), Utf8(<<"e">>)),
    Exited(Some(1), Utf8(<<"o", "LF">>), NotUtf8),
    Exited(None, Utf8(<<>>), Utf8(<<>>)) }

\* variant: a process that could not be spawned counts as a false condition
whenLenient(w, proc) ==
  CASE w.kind = "Always" -> Ok(TRUE)
    [] w.kind = "Never" -> Ok(FALSE)
    [] w.kind = "WhenExecute" ->
         IF proc.k = "Ok"
           THEN (IF success(proc) THEN Ok(TRUE) ELSE Ok(FALSE))
           ELSE Ok(FALSE)

\* When::when of each variant; proc is what the process of a WhenExecute did
when(w, proc) ==
  CASE w.kind = "Always" -> Ok(TRUE)
    [] w.kind = "Never" -> Ok(FALSE)
    [] w.kind = "WhenExecute" ->
         IF proc.k = "Ok"
           THEN (IF success(proc) THEN Ok(TRUE) ELSE Ok(FALSE))
           ELSE Err(error(FALSE, proc.text))

(***************************************************************************)
(* Modules                                                                 *)
(***************************************************************************)
NullModule == [name |-> NullName]
Command(command, args) == [name |-> COMMAND, command |-> command, args |-> args]
CloudFormation(stack_name) == [name |-> CLOUDFORMATION, stack_name |-> stack_name]
\* a Module implemented outside the crate
CustomModule == [name |-> CustomName]

\* NullModule::apply
NullApply == result_response(FALSE, Some(NullOutput))

\* str::lines for text without carriage returns
RECURSIVE Lines(_)
Lines(s) ==
  IF s = <<>> THEN <<>>
  ELSE IF \E j \in 1..Len(s) : s[j] = "LF"
    THEN LET n == CHOOSE j \in 1..Len(s) :
                    s[j] = "LF" /\ \A h \in 1..(j - 1) : s[h] # "LF"
         IN <<SubSeq(s, 1, n - 1)>> \o Lines(SubSeq(s, n + 1, Len(s)))
    ELSE <<s>>

\* variant: the exit status is recorded and not looked at
CommandApplyAnyExit(proc) ==
  IF proc.k = "Ok"
    THEN IF ~proc.stdout.utf8 \/ ~proc.stderr.utf8
           THEN Err(error(TRUE, Utf8ErrorText))
           ELSE result_response(TRUE, Some(CommandOutput(
                  IF proc.code.k = "Some" THEN proc.code.v ELSE -1,
                  proc.stdout.s, proc.stderr.s, Lines(proc.stdout.s),
                  Lines(proc.stderr.s))))
    ELSE result_error(TRUE, proc.text)

\* Command::apply from `match result` on: proc is the io::Result of the spawn
CommandApply(proc) ==
  IF proc.k = "Ok"
    THEN IF ~proc.stdout.utf8 \/ ~proc.stderr.utf8
           THEN Err(error(TRUE, Utf8ErrorText))
           ELSE LET out == proc.stdout.s
                    err == proc.stderr.s
                    output == CommandOutput(
                                IF proc.code.k = "Some" THEN proc.code.v ELSE -1,
                                out, err, Lines(out), Lines(err))
                IN IF success(proc)
                     THEN result_response(TRUE, Some(output))
                     ELSE result_error(TRUE, err)
    ELSE result_error(TRUE, proc.text)

\* the values a Module implemented outside the crate may return from apply
CustomApplyOutcomes ==
  { result_response(FALSE, None),
    result_response(TRUE, Some(CustomOutput(Ok(VString(<<"v">>)), TRUE))),
    result_response(TRUE, Some(CustomOutput(Err(<<"e">>), FALSE))),
    result_error(FALSE, <<"e">>),
    result_error(TRUE, <<"e">>) }

(***************************************************************************)
(* Task::run (src/ferro.rs): the chain of combinators on the value of the  *)
(* condition and, when it was called, the value of module.apply            *)
(***************************************************************************)
NotCalled == [k |-> "NotCalled"]

\* the inner map_err of Task::run, on the value of module.apply
InnerMapErr(e) == error(e.changed, e.description)
\* variant: every failure is reported as changed
OuterMapErrChanged(e) == error(TRUE, ErrorToString(e))

\* the outer map_err of Task::run, on the value of the whole and_then chain
OuterMapErr(e) == error(FALSE, ErrorToString(e))

\* variant: every applied task is reported as changed
InnerAndThenChanged(resp) == result_response(TRUE, resp.output)

\* the closure of the and_then on the Response of module.apply
InnerAndThen(resp) == result_response(resp.changed, resp.output)
\* variant: a skipped task is reported as changed
SkippedChanged == result_response(TRUE, None)

\* the else arm of `if proceed`: the task is skipped
Skipped == result_response(FALSE, None)

\* variant: the failed result does not carry the description of the error
TaskRunNoError(t, w, a) ==
  LET chained ==
        IF w.k = "Ok"
          THEN IF w.v
                 THEN (IF a.k = "Ok" THEN InnerAndThen(a.v) ELSE Err(InnerMapErr(a.e)))
                 ELSE Skipped
          ELSE w
      res == IF chained.k = "Err" THEN Err(OuterMapErr(chained.e)) ELSE chained
  IN IF res.k = "Ok"
       THEN TaskResult(t.module.name, TRUE, res.v.changed, None, res.v.output)
       ELSE TaskResult(t.module.name, FALSE, res.e.changed, None, None)

\* Task::run from the value of the condition and the value of module.apply
TaskRun(t, w, a) ==
  LET chained ==
        IF w.k = "Ok"
          THEN IF w.v
                 THEN (IF a.k = "Ok" THEN InnerAndThen(a.v) ELSE Err(InnerMapErr(a.e)))
                 ELSE Skipped
          ELSE w
      res == IF chained.k = "Err" THEN Err(OuterMapErr(chained.e)) ELSE chained
  IN IF res.k = "Ok"
       THEN TaskResult(t.module.name, TRUE, res.v.changed, None, res.v.output)
       ELSE TaskResult(t.module.name, FALSE, res.e.changed,
                       Some(res.e.description), None)

\* variant: nothing is ever stored
StoredValueNever(r) == None

\* variant: a result without a convertible output stores null
StoredValueAlways(r) ==
  IF r.output.k = "Some" /\ to_value(r.output.v).k = "Ok"
    THEN Some(to_value(r.output.v).v)
    ELSE Some(VNull)

\* Playbook::run, `if let Some(output)` / `if let Ok(value)`: the Value that
\* is inserted for a TaskResult, if any
StoredValue(r) ==
  IF r.output.k = "Some" /\ to_value(r.output.v).k = "Ok"
    THEN Some(to_value(r.output.v).v)
    ELSE None

\* variant: the loop goes on after a failure
LoopContinuesAlways(r) == TRUE

\* Playbook::run, `if succeeded { continue } else { break }`
LoopContinues(r) == r.succeeded

(***************************************************************************)
(* CloudFormation (src/modules/aws/cloudformation.rs)                      *)
(***************************************************************************)
\* cloudformation::Error
CloudFormationError(text) == [variant |-> "CloudFormationError", text |-> text]
StackNotFoundError == [variant |-> "StackNotFoundError"]
NoUpdateError == [variant |-> "NoUpdateError"]
UnknownError == [variant |-> "UnknownError"]

\* A call that does not return: the thread overflows its stack and the
\* process is aborted.
Overflow == [k |-> "Overflow"]

\* impl fmt::Display for cloudformation::Error: fmt writes "{}" of self, which
\* is fmt again, without end; to_string never returns
CfErrorToString(e) == Overflow

\* The message of a RusotoError is a sequence of phrases; str::contains of a
\* phrase is membership.
Contains(msg, phrase) == \E n \in 1..Len(msg) : msg[n] = phrase

MsgStackMissing == <<"Stack with id", "t", "does not exist">>
MsgAccessDenied == <<"AccessDenied">>
MsgNoUpdates == <<"No updates are to be performed">>

\* impl From<RusotoError<DescribeStacksError>> for Error
FromDescribeStacksError(msg) ==
  IF Contains(msg, "Stack with id") /\ Contains(msg, "does not exist")
    THEN StackNotFoundError
    ELSE CloudFormationError(msg)
\* impl From<RusotoError<CreateStackError>> for Error
FromCreateStackError(msg) == CloudFormationError(msg)
\* impl From<RusotoError<UpdateStackError>> for Error
FromUpdateStackError(msg) ==
  IF Contains(msg, "No updates are to be performed")
    THEN NoUpdateError
    ELSE CloudFormationError(msg)

\* rusoto Stack: the fields that are read
Stack(stack_status, outputs) == [stack_status |-> stack_status, outputs |-> outputs]
\* rusoto Output
CFOutput(output_key, output_value) ==
  [output_key |-> output_key, output_value |-> output_value]

\* outputs_to_map, the map as the entries of a JSON object.  The enumerated
\* outputs have at most one entry with both key and value, so the entries need
\* no ordering.
RECURSIVE outputs_to_map(_)
outputs_to_map(outputs) ==
  IF outputs = <<>> THEN <<>>
  ELSE LET output == Head(outputs)
           rest == outputs_to_map(Tail(outputs))
       IN IF output.output_key.k = "Some" /\ output.output_value.k = "Some"
               /\ ~ObjectHas(rest, output.output_key.v)
            THEN << <<output.output_key.v, VString(output.output_value.v)>> >> \o rest
            ELSE rest

\* the stack statuses
CREATE_COMPLETE == "CREATE_COMPLETE"
CREATE_FAILED == "CREATE_FAILED"
DELETE_COMPLETE == "DELETE_COMPLETE"
DELETE_FAILED == "DELETE_FAILED"
ROLLBACK_FAILED == "ROLLBACK_FAILED"
ROLLBACK_COMPLETE == "ROLLBACK_COMPLETE"
UPDATE_COMPLETE == "UPDATE_COMPLETE"
UPDATE_FAILED == "UPDATE_FAILED"
UPDATE_ROLLBACK_FAILED == "UPDATE_ROLLBACK_FAILED"
UPDATE_ROLLBACK_COMPLETE == "UPDATE_ROLLBACK_COMPLETE"

\* wait_for_stack_create / wait_for_stack_update: the failure states and the
\* desired state handed to wait_for_stack
CreateStates ==
  {CREATE_FAILED, DELETE_COMPLETE, DELETE_FAILED, ROLLBACK_FAILED, ROLLBACK_COMPLETE}
UpdateStates == {UPDATE_FAILED, UPDATE_ROLLBACK_FAILED, UPDATE_ROLLBACK_COMPLETE}
WaitStates(op) == IF op = "create" THEN CreateStates ELSE UpdateStates
DesiredState(op) == IF op = "create" THEN CREATE_COMPLETE ELSE UPDATE_COMPLETE

\* the answers of DescribeStacks that are enumerated: an error message, or
\* the `stacks` field of the response
SampleOutputs ==
  { None,
    Some(<< CFOutput(Some(<<"s","g">>), Some(<<"i","d">>)),
            CFOutput(None, Some(<<"x">>)) >>) }
SampleStatuses ==
  {CREATE_COMPLETE, UPDATE_COMPLETE, ROLLBACK_COMPLETE, UPDATE_ROLLBACK_COMPLETE,
   "CREATE_IN_PROGRESS"}
DescribeAnswers ==
  { [k |-> "Err", msg |-> MsgStackMissing], [k |-> "Err", msg |-> MsgAccessDenied],
    [k |-> "Ok", stacks |-> None], [k |-> "Ok", stacks |-> Some(<<>>)] }
  \cup { [k |-> "Ok", stacks |-> Some(<<Stack(st, o)>>)] :
           st \in SampleStatuses, o \in SampleOutputs }
\* the answers of CreateStack and of UpdateStack
CreateAnswers == { [k |-> "Ok"], [k |-> "Err", msg |-> MsgAccessDenied] }
UpdateAnswers ==
  { [k |-> "Ok"], [k |-> "Err", msg |-> MsgNoUpdates],
    [k |-> "Err", msg |-> MsgAccessDenied] }

\* get_stack_info, on the answer of DescribeStacks
get_stack_info(answer) ==
  IF answer.k = "Err" THEN Err(FromDescribeStacksError(answer.msg))
  ELSE IF answer.stacks.k = "Some" /\ answer.stacks.v # <<>>
    THEN Ok(Head(answer.stacks.v))
    ELSE Err(UnknownError)

\* result_error(changed, e.to_string()) and error(changed, e.to_string()) of
\* CloudFormation::apply, and map_err(|e| CloudFormationError(e.to_string()))
\* of create_stack / update_stack: each first renders the error
CfResultError(changed, e) ==
  LET text == CfErrorToString(e) IN
  IF text.k = "Ok" THEN result_error(changed, text.v) ELSE Overflow

\* the Response built from the stack read after the wait (changed) or after
\* NoUpdateError (not changed)
CfResponse(changed, stack) ==
  IF stack.outputs.k = "Some"
    THEN result_response(changed, Some(CfOutput(outputs_to_map(stack.outputs.v))))
    ELSE result_response(changed, None)

\* variant: the failure states are not looked at
WaitStepNoFailure(states, desired_state, stack_status) ==
  IF stack_status = desired_state THEN "done" ELSE "sleep"

\* one pass of the loop of wait_for_stack on the stack status just read:
\* "done", "failed" or "sleep"
WaitStep(states, desired_state, stack_status) ==
  IF stack_status = desired_state THEN "done"
  ELSE IF stack_status \in states THEN "failed"
  ELSE "sleep"

(***************************************************************************)
(* The record printed for a TaskResult: the JSON tree that                 *)
(* serde_json::to_string_pretty renders, entries in key order              *)
(***************************************************************************)
N_NullOutput == <<"N","u","l","l","O","u","t","p","u","t">>
N_Output == <<"O","u","t","p","u","t">>

\* Serialize of a Box<dyn Output>: typetag writes the type name under "type"
SerializeOutput(o) ==
  CASE o.type = "NullOutput" -> Ok(VObject(<< <<K_type, VString(N_NullOutput)>> >>))
    [] o.type \in {"command::Output", "cloudformation::Output"} ->
         Ok(VObject(OutputFields(o) \o << <<K_type, VString(N_Output)>> >>))
    [] o.type = "custom" ->
         IF o.ser THEN Ok(VObject(<< <<K_type, VString(CustomName)>> >>))
         ELSE Err(<<"e">>)

\* Serialize of TaskResult: error and output are skipped when None
SerializeResult(r) ==
  LET out == IF r.output.k = "Some" THEN SerializeOutput(r.output.v) ELSE Ok(VNull)
  IN IF out.k = "Err" THEN out
     ELSE Ok(VObject(
            << <<K_changed, VBool(r.changed)>> >>
            \o (IF r.error.k = "Some"
                  THEN << <<K_error, VString(r.error.v)>> >> ELSE <<>>)
            \o << <<K_module, VString(r.module)>> >>
            \o (IF r.output.k = "Some" THEN << <<K_output, out.v>> >> ELSE <<>>)
            \o << <<K_succeeded, VBool(r.succeeded)>> >>))

(***************************************************************************)
(* The playbooks that are enumerated                                       *)
(***************************************************************************)
Task(description, module, w) == [description |-> description, module |-> module, when |-> w]

N_name == <<"n","a","m","e">>
N_stack_name == <<"s","t","a","c","k","_","n","a","m","e">>
N_stack_ame == <<"s","t","a","c","k","_","a","m","e">>
HelloTemplate == <<"h","e","l","l","o","-","{}">>
FooTemplate == <<"f","o","o","-","{}">>

\* context.vars of the enumerated playbooks
SampleVars ==
  [d \in {N_name, N_stack_name} |-> IF d = N_name THEN <<"x">> ELSE <<"t">>]

TaskPool ==
  { Task(D1, NullModule, Never),
    Task(D1, NullModule, Always),
    Task(D1, Command(string(<<"c">>), <<lazy_format(HelloTemplate, <<var(N_name)>>)>>),
         WhenExecute(<<"t">>, <<>>)),
    Task(D2, Command(string(<<"c">>),
                     <<with_default(state(D1, K_stdout), string(<<"n">>))>>),
         Always),
    Task(D2, CloudFormation(with_default(var(N_stack_ame),
                                         lazy_format(FooTemplate, <<var(N_stack_name)>>))),
         Always),
    Task(D2, CustomModule, Always) }

RECURSIVE SeqsUpTo(_, _)
SeqsUpTo(S, n) ==
  IF n = 0 THEN {<<>>}
  ELSE LET shorter == SeqsUpTo(S, n - 1)
       IN shorter \cup {Append(q, x) : q \in {r \in shorter : Len(r) = n - 1}, x \in S}

TaskLists == SeqsUpTo(TaskPool, MaxTasks)

(***************************************************************************)
(* State                                                                   *)
(***************************************************************************)
VARIABLES
  tasks,      \* Playbook.tasks
  context,    \* Playbook.context: [vars, state]
  results,    \* `results` of Playbook::run
  pc,         \* where control is
  i,          \* position of the for loop of Playbook::run in tasks, from 1
  when_ret,   \* value of the condition of the task being run, once evaluated
  apply_ret,  \* value of module.apply of the task being run, once returned
  result,     \* `result` of Playbook::run: the TaskResult of the task being run
  stdout,     \* the records printed so far
  calls,      \* per task, how often when / apply / destroy were entered
  returned,   \* per task, the TaskResult that Task::run returned, if it did
  argv,       \* program and arguments of the last process Command::apply spawned
  cf,         \* CloudFormation::apply: [stack_name, op, polls], and of
              \* wait_for_stack what the last poll read and what it returned
  fault,      \* why the process died, "" while it lives
  spawned,    \* what the processes spawned for the task being run did:
              \* [when, apply], each the io::Result of the spawn if there was one
  fpath,      \* find: the path
  fobj,       \* find: the Value
  fret,       \* find: the value returned, once called
  lf,         \* a lazy::String: the resolver
  lret        \* the value the call lf(&context) returned, once called

vars ==
  <<tasks, context, results, pc, i, when_ret, apply_ret, result, stdout, calls,
    returned, argv, cf, fault, spawned, fpath, fobj, fret, lf, lret>>

pbvars ==
  <<tasks, context, results, pc, i, when_ret, apply_ret, result, stdout, calls,
    returned, argv, cf, fault, spawned>>
findvars == <<fpath, fobj, fret, lf, lret>>

CfIdle ==
  [stack_name |-> <<>>, op |-> "none", polls |-> 0, seen |-> NotCalled,
   wait_ret |-> NotCalled]
NoCalls == [when |-> 0, apply |-> 0, destroy |-> 0]
NoSpawn == [when |-> None, apply |-> None]

\* the task the loop is at
task == tasks[i]

\* pc while Task::run of the current task is executing
TaskRunPcs ==
  {"when", "apply", "cf_update", "cf_create", "cf_wait", "cf_outputs", "cf_no_update"}
\* pc while the body of the for loop processes the TaskResult
DriverPcs == {"insert", "print", "push"}

InitPlaybook ==
  /\ tasks \in TaskLists
  /\ context = [vars |-> SampleVars, state |-> EmptyMap]
  /\ results = <<>>
  /\ pc = "pending"
  /\ i = 0
  /\ when_ret = NotCalled
  /\ apply_ret = NotCalled
  /\ result = None
  /\ stdout = <<>>
  /\ calls = [n \in 1..Len(tasks) |-> NoCalls]
  /\ returned = [n \in 1..Len(tasks) |-> None]
  /\ argv = <<>>
  /\ cf = CfIdle
  /\ fault = ""
  /\ spawned = NoSpawn

(***************************************************************************)
(* Playbook::run and Task::run                                             *)
(***************************************************************************)
\* Playbook::run is entered: results is created and the loop takes the first
\* task, or ends at once on an empty list
Run ==
  /\ pc = "pending"
  /\ results' = <<>>
  /\ IF tasks = <<>> THEN pc' = "completed" /\ i' = 0 ELSE pc' = "when" /\ i' = 1
  /\ UNCHANGED <<tasks, context, when_ret, apply_ret, result, stdout, calls,
                 returned, argv, cf, fault, spawned, findvars>>

Count(what) ==
  [calls EXCEPT ![i] = [@ EXCEPT ![what] = @ + 1]]

\* Task::run returns: the TaskResult is bound to `result` in Playbook::run
Returns(w, a) ==
  /\ when_ret' = w
  /\ apply_ret' = a
  /\ result' = Some(TaskRun(task, w, a))
  /\ returned' = [returned EXCEPT ![i] = Some(TaskRun(task, w, a))]
  /\ pc' = "insert"
  /\ fault' = fault

\* the thread dies inside Task::run
Dies(why) ==
  /\ pc' = "aborted"
  /\ fault' = why
  /\ UNCHANGED <<when_ret, apply_ret, result, returned>>

\* module.apply ends with ret: a Result, or a call that did not return
ApplyEnds(ret) ==
  CASE ret.k = "Panic" -> Dies("panic")
    [] ret.k = "Overflow" -> Dies("stack overflow")
    [] OTHER -> Returns(when_ret, ret)

\* Task::run evaluates the condition; module.apply follows only on Ok(true)
EvalWhen ==
  /\ pc = "when"
  /\ \E proc \in ProcOutcomes :
       /\ spawned' = [spawned EXCEPT !.when = IF task.when.kind = "WhenExecute"
                                                 THEN Some(proc) ELSE None]
       /\ LET w == when(task.when, proc) IN
          IF w.k = "Ok" /\ w.v
            THEN /\ when_ret' = w
                 /\ pc' = "apply"
                 /\ UNCHANGED <<apply_ret, result, returned, fault>>
            ELSE Returns(w, NotCalled)
  /\ calls' = Count("when")
  /\ UNCHANGED <<tasks, context, results, i, stdout, argv, cf, findvars>>

\* NullModule::apply
ApplyNull ==
  /\ pc = "apply"
  /\ task.module.name = NullName
  /\ ApplyEnds(NullApply)
  /\ calls' = Count("apply")
  /\ UNCHANGED <<tasks, context, results, i, stdout, argv, cf, spawned, findvars>>

\* variant: the arguments and the program are resolved against the context
\* as it was when the playbook was built, with no state
ApplyCommandEarly ==
  /\ pc = "apply"
  /\ task.module.name = COMMAND
  /\ LET built == [context EXCEPT !.state = EmptyMap]
         args == [n \in 1..Len(task.module.args) |-> Eval(task.module.args[n], built)]
         command == Eval(task.module.command, built)
     IN IF command.k = "Panic" \/ \E n \in 1..Len(args) : args[n].k = "Panic"
          THEN ApplyEnds(Panic) /\ argv' = argv /\ spawned' = spawned
          ELSE /\ argv' = <<command.v>> \o [n \in 1..Len(args) |-> args[n].v]
               /\ \E proc \in ProcOutcomes :
                    /\ ApplyEnds(CommandApply(proc))
                    /\ spawned' = [spawned EXCEPT !.apply = Some(proc)]
  /\ calls' = Count("apply")
  /\ UNCHANGED <<tasks, context, results, i, stdout, cf, findvars>>

\* Command::apply: the arguments and the program are resolved against the
\* context, the process is spawned and waited for
ApplyCommand ==
  /\ pc = "apply"
  /\ task.module.name = COMMAND
  /\ LET args == [n \in 1..Len(task.module.args) |-> Eval(task.module.args[n], context)]
         command == Eval(task.module.command, context)
     IN IF command.k = "Panic" \/ \E n \in 1..Len(args) : args[n].k = "Panic"
          THEN ApplyEnds(Panic) /\ argv' = argv /\ spawned' = spawned
          ELSE /\ argv' = <<command.v>> \o [n \in 1..Len(args) |-> args[n].v]
               /\ \E proc \in ProcOutcomes :
                    /\ ApplyEnds(CommandApply(proc))
                    /\ spawned' = [spawned EXCEPT !.apply = Some(proc)]
  /\ calls' = Count("apply")
  /\ UNCHANGED <<tasks, context, results, i, stdout, cf, findvars>>

\* apply of a Module implemented outside the crate
ApplyCustom ==
  /\ pc = "apply"
  /\ task.module.name = CustomName
  /\ \E ret \in CustomApplyOutcomes : ApplyEnds(ret)
  /\ calls' = Count("apply")
  /\ UNCHANGED <<tasks, context, results, i, stdout, argv, cf, spawned, findvars>>

\* CloudFormation::apply, up to the match on the first get_stack_info: the
\* stack name is resolved and the stack is looked up
CfApply ==
  /\ pc = "apply"
  /\ task.module.name = CLOUDFORMATION
  /\ LET stack_name == Eval(task.module.stack_name, context) IN
     IF stack_name.k = "Panic"
       THEN ApplyEnds(Panic) /\ cf' = cf
       ELSE \E answer \in DescribeAnswers :
              LET info == get_stack_info(answer) IN
              CASE info.k = "Ok" ->
                     /\ pc' = "cf_update"
                     /\ cf' = [CfIdle EXCEPT !.stack_name = stack_name.v, !.op = "update"]
                     /\ UNCHANGED <<when_ret, apply_ret, result, returned, fault>>
                [] info.k = "Err" /\ info.e = StackNotFoundError ->
                     /\ pc' = "cf_create"
                     /\ cf' = [CfIdle EXCEPT !.stack_name = stack_name.v, !.op = "create"]
                     /\ UNCHANGED <<when_ret, apply_ret, result, returned, fault>>
                [] OTHER -> ApplyEnds(CfResultError(FALSE, info.e)) /\ cf' = CfIdle
  /\ calls' = Count("apply")
  /\ UNCHANGED <<tasks, context, results, i, stdout, argv, spawned, findvars>>

\* update_stack, the UpdateStack call: NoUpdateError and the other errors
\* return to the match of apply, success enters wait_for_stack_update
CfUpdateStack ==
  /\ pc = "cf_update"
  /\ \E answer \in UpdateAnswers :
       IF answer.k = "Ok"
         THEN /\ pc' = "cf_wait"
              /\ cf' = cf
              /\ UNCHANGED <<when_ret, apply_ret, result, returned, fault>>
         ELSE LET e == FromUpdateStackError(answer.msg) IN
              IF e = NoUpdateError
                THEN /\ pc' = "cf_no_update"
                     /\ cf' = cf
                     /\ UNCHANGED <<when_ret, apply_ret, result, returned, fault>>
                ELSE ApplyEnds(CfResultError(TRUE, e)) /\ cf' = CfIdle
  /\ UNCHANGED <<tasks, context, results, i, stdout, calls, argv, spawned, findvars>>

\* create_stack, the CreateStack call
CfCreateStack ==
  /\ pc = "cf_create"
  /\ \E answer \in CreateAnswers :
       IF answer.k = "Ok"
         THEN /\ pc' = "cf_wait"
              /\ cf' = cf
              /\ UNCHANGED <<when_ret, apply_ret, result, returned, fault>>
         ELSE ApplyEnds(CfResultError(TRUE, FromCreateStackError(answer.msg)))
              /\ cf' = CfIdle
  /\ UNCHANGED <<tasks, context, results, i, stdout, calls, argv, spawned, findvars>>

\* variant: wait_for_stack gives up after MaxPolls polls
CfWaitTimeout ==
  /\ pc = "cf_wait"
  /\ \E answer \in DescribeAnswers :
       LET info == get_stack_info(answer)
           step == IF info.k = "Ok"
                     THEN WaitStep(WaitStates(cf.op), DesiredState(cf.op),
                                   info.v.stack_status)
                     ELSE "error"
           polled == [cf EXCEPT !.polls = IF @ < MaxPolls THEN @ + 1 ELSE @,
                                !.seen = IF info.k = "Ok"
                                           THEN Ok(info.v.stack_status) ELSE info]
       IN CASE step = "done" ->
                 /\ pc' = "cf_outputs"
                 /\ cf' = [polled EXCEPT !.wait_ret = Ok(<<>>)]
                 /\ UNCHANGED <<when_ret, apply_ret, result, returned, fault>>
            [] step = "sleep" ->
                 IF cf.polls < MaxPolls
                   THEN /\ pc' = "cf_wait"
                        /\ cf' = polled
                        /\ UNCHANGED <<when_ret, apply_ret, result, returned, fault>>
                   ELSE /\ ApplyEnds(CfResultError(TRUE, UnknownError))
                        /\ cf' = [polled EXCEPT !.wait_ret = Err(UnknownError)]
            [] step = "failed" ->
                 /\ ApplyEnds(CfResultError(TRUE, CloudFormationError(info.v.stack_status)))
                 /\ cf' = [polled EXCEPT
                             !.wait_ret = Err(CloudFormationError(info.v.stack_status))]
            [] step = "error" ->
                 /\ ApplyEnds(CfResultError(TRUE, info.e))
                 /\ cf' = [polled EXCEPT !.wait_ret = info]
  /\ UNCHANGED <<tasks, context, results, i, stdout, calls, argv, spawned, findvars>>

\* one pass of the loop of wait_for_stack.  An error of get_stack_info and a
\* failure state leave the loop with Err, which create_stack / update_stack
\* hand to map_err(|e| CloudFormationError(e.to_string())).  cf.seen is what
\* the poll read, cf.wait_ret what wait_for_stack returned, if it did.  The
\* count of polls stops growing at MaxPolls.
CfWait ==
  /\ pc = "cf_wait"
  /\ \E answer \in DescribeAnswers :
       LET info == get_stack_info(answer)
           step == IF info.k = "Ok"
                     THEN WaitStep(WaitStates(cf.op), DesiredState(cf.op),
                                   info.v.stack_status)
                     ELSE "error"
           polled == [cf EXCEPT !.polls = IF @ < MaxPolls THEN @ + 1 ELSE @,
                                !.seen = IF info.k = "Ok"
                                           THEN Ok(info.v.stack_status) ELSE info]
       IN CASE step = "done" ->
                 /\ pc' = "cf_outputs"
                 /\ cf' = [polled EXCEPT !.wait_ret = Ok(<<>>)]
                 /\ UNCHANGED <<when_ret, apply_ret, result, returned, fault>>
            [] step = "sleep" ->
                 /\ pc' = "cf_wait"
                 /\ cf' = polled
                 /\ UNCHANGED <<when_ret, apply_ret, result, returned, fault>>
            [] step = "failed" ->
                 /\ ApplyEnds(CfResultError(TRUE, CloudFormationError(info.v.stack_status)))
                 /\ cf' = [polled EXCEPT
                             !.wait_ret = Err(CloudFormationError(info.v.stack_status))]
            [] step = "error" ->
                 /\ ApplyEnds(CfResultError(TRUE, info.e))
                 /\ cf' = [polled EXCEPT !.wait_ret = info]
  /\ UNCHANGED <<tasks, context, results, i, stdout, calls, argv, spawned, findvars>>

\* after the wait: get_stack_info once more, the outputs become the Response
CfOutputs ==
  /\ pc = "cf_outputs"
  /\ \E answer \in DescribeAnswers :
       LET info == get_stack_info(answer) IN
       IF info.k = "Ok"
         THEN ApplyEnds(CfResponse(TRUE, info.v))
         ELSE ApplyEnds(CfResultError(TRUE, info.e))
  /\ cf' = CfIdle
  /\ UNCHANGED <<tasks, context, results, i, stdout, calls, argv, spawned, findvars>>

\* the NoUpdateError arm of apply: get_stack_info, the current outputs
CfNoUpdate ==
  /\ pc = "cf_no_update"
  /\ \E answer \in DescribeAnswers :
       LET info == get_stack_info(answer) IN
       IF info.k = "Ok"
         THEN ApplyEnds(CfResponse(FALSE, info.v))
         ELSE ApplyEnds(CfResultError(FALSE, info.e))
  /\ cf' = CfIdle
  /\ UNCHANGED <<tasks, context, results, i, stdout, calls, argv, spawned, findvars>>

\* Playbook::run: an output that converts to a Value is stored under the
\* description of the task
Insert ==
  /\ pc = "insert"
  /\ context' =
       IF StoredValue(result.v).k = "Some"
         THEN [context EXCEPT !.state =
                 MapInsert(@, task.description, StoredValue(result.v).v)]
         ELSE context
  /\ pc' = "print"
  /\ UNCHANGED <<tasks, results, i, when_ret, apply_ret, result, stdout, calls,
                 returned, argv, cf, fault, spawned, findvars>>

\* variant: a result that does not serialize ends the run
PrintResultStrict ==
  /\ pc = "print"
  /\ stdout' = IF SerializeResult(result.v).k = "Ok"
                 THEN Append(stdout, SerializeResult(result.v).v)
                 ELSE stdout
  /\ pc' = IF SerializeResult(result.v).k = "Ok" THEN "push" ELSE "halted"
  /\ UNCHANGED <<tasks, context, results, i, when_ret, apply_ret, result, calls,
                 returned, argv, cf, fault, spawned, findvars>>

\* Playbook::run: the result is serialized and printed, a failure is dropped
PrintResult ==
  /\ pc = "print"
  /\ stdout' = IF SerializeResult(result.v).k = "Ok"
                 THEN Append(stdout, SerializeResult(result.v).v)
                 ELSE stdout
  /\ pc' = "push"
  /\ UNCHANGED <<tasks, context, results, i, when_ret, apply_ret, result, calls,
                 returned, argv, cf, fault, spawned, findvars>>

\* variant: after a success the loop does not move on
PushAgain ==
  /\ pc = "push"
  /\ results' = Append(results, result.v)
  /\ IF LoopContinues(result.v)
       THEN pc' = "when" /\ i' = i
       ELSE pc' = "halted" /\ i' = i
  /\ when_ret' = NotCalled
  /\ apply_ret' = NotCalled
  /\ result' = None
  /\ spawned' = NoSpawn
  /\ UNCHANGED <<tasks, context, stdout, calls, returned, argv, cf, fault, findvars>>

\* variant: a failed task is run again
PushRetry ==
  /\ pc = "push"
  /\ results' = Append(results, result.v)
  /\ IF LoopContinues(result.v)
       THEN IF i < Len(tasks)
              THEN pc' = "when" /\ i' = i + 1
              ELSE pc' = "completed" /\ i' = i
       ELSE pc' = "when" /\ i' = i
  /\ when_ret' = NotCalled
  /\ apply_ret' = NotCalled
  /\ result' = None
  /\ spawned' = NoSpawn
  /\ UNCHANGED <<tasks, context, stdout, calls, returned, argv, cf, fault, findvars>>

\* Playbook::run: the result is pushed; the loop continues after a success
\* and breaks after a failure; when the tasks are exhausted run returns
Push ==
  /\ pc = "push"
  /\ results' = Append(results, result.v)
  /\ IF LoopContinues(result.v)
       THEN IF i < Len(tasks)
              THEN pc' = "when" /\ i' = i + 1
              ELSE pc' = "completed" /\ i' = i
       ELSE pc' = "halted" /\ i' = i
  /\ when_ret' = NotCalled
  /\ apply_ret' = NotCalled
  /\ result' = None
  /\ spawned' = NoSpawn
  /\ UNCHANGED <<tasks, context, stdout, calls, returned, argv, cf, fault, findvars>>

Next ==
  \/ Run
  \/ EvalWhen
  \/ ApplyNull
  \/ ApplyCommand
  \/ ApplyCustom
  \/ CfApply
  \/ CfUpdateStack
  \/ CfCreateStack
  \/ CfWait
  \/ CfOutputs
  \/ CfNoUpdate
  \/ Insert
  \/ PrintResult
  \/ Push

InitLazyIdle ==
  /\ lf = string(<<>>)
  /\ lret = NotCalled

InitFindIdle ==
  /\ fpath = <<>>
  /\ fobj = VNull
  /\ fret = NotCalled
  /\ InitLazyIdle

Init == InitPlaybook /\ InitFindIdle

Spec == Init /\ [][Next]_vars

\* Playbook::run is one thread that runs on the caller's stack: whenever it
\* can take a step it takes one
InitLive == Init /\ Len(tasks) <= MaxLiveTasks

FairSpec == InitLive /\ [][Next]_vars /\ WF_vars(Next)

(***************************************************************************)
(* find, called on enumerated paths and Values                             *)
(***************************************************************************)
\* the Value of tests::test_find
TestValue ==
  VObject(<<
    << <<"k","1">>,
       VObject(<< << <<"k","1">>,
                     VArray(<<VString(<<"1">>), VString(<<"2">>), VString(<<"3">>)>>) >>,
                  << <<"k","2">>,
                     VArray(<<VNumber(1), VNumber(2), VNumber(3)>>) >> >>) >>,
    << <<"k","2">>,
       VObject(<< << <<"k","1">>,
                     VArray(<< VObject(<< << <<"k","1">>, VString(<<"v","1">>) >>,
                                          << <<"k","2">>, VString(<<"v","2">>) >> >>) >>) >> >>) >> >>)

FindValues ==
  { VNull, VBool(TRUE), VNumber(2), VString(<<"v">>), VString(<<>>),
    VArray(<<>>),
    VArray(<<VNumber(1), VArray(<<VString(<<"a">>)>>), VObject(<< << <<"k">>, VNull >> >>)>>),
    VObject(<<>>),
    VObject(<< << <<>>, VBool(FALSE) >>,
               << <<"1">>, VArray(<<VNull, VString(<<"b">>)>>) >>,
               << <<"k">>, VObject(<< << <<"2">>, VNumber(0) >> >>) >> >>),
    TestValue }

PathChars == {"k", "1", "2", "0", "."}

\* the paths of tests::test_find, and segments that are numeric for
\* char::is_numeric: one above usize::MAX, usize::MAX itself, a numeric
\* character that is not an ASCII digit
SamplePaths ==
  { <<"k","1",".","k","1",".","1">>, <<"k","1",".","k","2",".","1">>,
    <<"k","2",".","k","1",".","0",".","k","1">>, <<"k","1",".","k","1">>,
    <<"k","1",".","k","2">>, <<"k","2",".","k","1",".","0">>,
    <<"1",".","1",".","k">>, <<"1",".","1",".","0",".","k">>,
    <<"1",".">> \o UsizeMaxDigits,
    <<"1",".","1","8","4","4","6","7","4","4","0","7","3","7","0","9","5","5","1","6","1","6">>,
    <<"1",".","sup2">>, <<"0","0","1",".","0">>, <<"x">> }

FindPaths == SeqsUpTo(PathChars, MaxPathLen) \cup SamplePaths

InitPlaybookIdle ==
  /\ tasks = <<>>
  /\ context = [vars |-> SampleVars, state |-> EmptyMap]
  /\ results = <<>>
  /\ pc = "pending"
  /\ i = 0
  /\ when_ret = NotCalled
  /\ apply_ret = NotCalled
  /\ result = None
  /\ stdout = <<>>
  /\ calls = <<>>
  /\ returned = <<>>
  /\ argv = <<>>
  /\ cf = CfIdle
  /\ fault = ""
  /\ spawned = NoSpawn

InitFind ==
  /\ InitPlaybookIdle
  /\ fpath \in FindPaths
  /\ fobj \in FindValues
  /\ fret = NotCalled
  /\ InitLazyIdle

\* find(&fpath, &fobj) is called and returns, or panics
FindCall ==
  /\ fret = NotCalled
  /\ fret' = find(fpath, fobj)
  /\ UNCHANGED <<fpath, fobj, lf, lret, pbvars>>

NextFind == FindCall

SpecFind == InitFind /\ [][NextFind]_vars

(***************************************************************************)
(* Lazy resolvers, called on enumerated contexts                           *)
(***************************************************************************)
\* the contexts: vars as in the playbooks or empty; state empty or with one
\* entry under D1, a Value of any shape or the Value that the Output of a
\* Command converts to
LazyContexts ==
  LET CommandValue ==
        to_value(CommandOutput(0, <<"o", "LF">>, <<>>, <<<<"o">>>>, <<>>)).v
      LazyStates ==
        {EmptyMap} \cup {[d \in {D1} |-> v] : v \in FindValues \cup {CommandValue}}
  IN {[vars |-> v, state |-> st] : v \in {SampleVars, EmptyMap}, st \in LazyStates}

LazyPaths ==
  { <<>>, <<"k">>, <<"0">>, <<"x">>, <<"1",".","1">>, <<"1",".">>, <<"1",".","sup2">>,
    <<"k","1",".","k","1",".","1">>, <<"k","1",".","k","2",".","1">>,
    K_stdout, K_stdout_lines \o <<".","0">>, K_stdout_lines \o <<".">> }

BaseResolvers ==
  {string(<<>>), string(<<"n">>), var(N_name), var(N_stack_ame)}
    \cup {state(d, p) : d \in {D1, D2}, p \in LazyPaths}

\* the resolvers: the five builders of src/lazy.rs, nested one level and two
LazyResolvers ==
  LET Fallbacks ==
        {string(<<>>), string(<<"n">>), var(N_name), state(D1, <<"1",".">>),
         state(D1, K_stdout)}
  IN BaseResolvers
       \cup {with_default(f, d) : f \in BaseResolvers, d \in Fallbacks}
       \cup {lazy_format(HelloTemplate, <<f>>) : f \in BaseResolvers}
       \cup {with_default(with_default(f, string(<<>>)), string(<<"n">>)) :
               f \in BaseResolvers}

InitLazy ==
  /\ tasks = <<>>
  /\ context \in LazyContexts
  /\ results = <<>>
  /\ pc = "pending"
  /\ i = 0
  /\ when_ret = NotCalled
  /\ apply_ret = NotCalled
  /\ result = None
  /\ stdout = <<>>
  /\ calls = <<>>
  /\ returned = <<>>
  /\ argv = <<>>
  /\ cf = CfIdle
  /\ fault = ""
  /\ spawned = NoSpawn
  /\ fpath = <<>>
  /\ fobj = VNull
  /\ fret = NotCalled
  /\ lf \in LazyResolvers
  /\ lret = NotCalled

\* the resolver is called with the context and returns, or panics
LazyCall ==
  /\ lret = NotCalled
  /\ lret' = Eval(lf, context)
  /\ UNCHANGED <<lf, fpath, fobj, fret, pbvars>>

NextLazy == LazyCall

SpecLazy == InitLazy /\ [][NextLazy]_vars

(***************************************************************************)
(* Properties of Playbook::run and Task::run                               *)
(***************************************************************************)
\* the tasks among the first k whose result carries an output that converts
Writers(k) ==
  {n \in 1..k : results[n].output.k = "Some" /\ to_value(results[n].output.v).k = "Ok"}

\* the state that the outputs of the first k tasks amount to: per
\* description, the converted output of the last of them that has one
Committed(k) ==
  [d \in {tasks[n].description : n \in Writers(k)} |->
     LET last == CHOOSE n \in Writers(k) :
                   /\ tasks[n].description = d
                   /\ \A m \in Writers(k) : tasks[m].description = d => m <= n
     IN to_value(results[last].output.v).v]

\* C1: Playbook::run is fail-fast.  The results are the values Task::run
\* returned for the tasks in declared order; all but the last succeeded; run
\* ends halted exactly on a failed last result and completed with one
\* successful result per task; no condition is evaluated and no module is
\* applied for a task after a failed one.
C1_FailFast ==
  /\ Len(results) <= Len(tasks)
  /\ \A n \in 1..Len(results) : returned[n] = Some(results[n])
  /\ \A n \in 1..(Len(results) - 1) : results[n].succeeded
  /\ pc = "halted" => Len(results) >= 1 /\ ~results[Len(results)].succeeded
  /\ pc = "completed" =>
       Len(results) = Len(tasks) /\ \A n \in 1..Len(results) : results[n].succeeded
  /\ \A n \in 1..Len(tasks) :
       (\E m \in 1..Len(results) : m < n /\ ~results[m].succeeded)
         => calls[n].when = 0 /\ calls[n].apply = 0 /\ returned[n] = None

C1_Witness ==
  /\ pc = "halted"
  /\ Len(tasks) = 3
  /\ Len(results) = 2
  /\ results[1].succeeded
  /\ calls[3].when = 0

\* C2: when the condition is true and module.apply returns an error, the
\* TaskResult has succeeded = false, changed equal to the changed flag of the
\* error and error equal to the description of the error.
C2_ErrorKeepsChanged ==
  (pc \in DriverPcs /\ when_ret = Ok(TRUE) /\ apply_ret.k = "Err") =>
    /\ ~result.v.succeeded
    /\ result.v.changed = apply_ret.e.changed
    /\ result.v.error = Some(apply_ret.e.description)

\* C3: once the driver has processed the output of a task, an output that
\* converts to a Value is the entry of context.state under the description of
\* the task, whatever was there before.
C3_OutputStored ==
  (pc \in {"print", "push"} /\ result.v.output.k = "Some"
     /\ to_value(result.v.output.v).k = "Ok") =>
    /\ MapHas(context.state, task.description)
    /\ context.state[task.description] = to_value(result.v.output.v).v

C3_Witness ==
  /\ pc = "print"
  /\ i = 2
  /\ tasks[1].description = tasks[2].description
  /\ 1 \in Writers(1)
  /\ result.v.output.k = "Some"
  /\ to_value(result.v.output.v).k = "Ok"
  /\ to_value(result.v.output.v) # to_value(results[1].output.v)
  /\ context.state[tasks[2].description] = to_value(result.v.output.v).v

\* C4: while the condition and the module of task i run, context.state does
\* not change and is what the outputs of tasks 1..i-1 amount to.
C4_StateStableInTask ==
  /\ [](pc \in TaskRunPcs => context.state = Committed(i - 1))
  /\ [][(pc \in TaskRunPcs) => (context' = context)]_vars

C4_Witness ==
  /\ pc \in {"apply", "cf_wait"}
  /\ i = 3
  /\ Writers(2) = {1, 2}
  /\ tasks[1].description # tasks[2].description

\* C5: a task whose condition is false yields succeeded = true, changed =
\* false, no error and no output; its module is not applied; the driver leaves
\* the context as it is and goes on to the next task, or completes.
C5_SkippedTask ==
  /\ []((pc \in DriverPcs /\ when_ret = Ok(FALSE)) =>
          /\ result.v = TaskResult(task.module.name, TRUE, FALSE, None, None)
          /\ calls[i].apply = 0)
  /\ [][(pc \in DriverPcs /\ when_ret = Ok(FALSE)) =>
          /\ context' = context
          /\ pc = "push" =>
               IF i < Len(tasks) THEN pc' = "when" /\ i' = i + 1
               ELSE pc' = "completed"]_vars

C5_Witness ==
  /\ pc = "when"
  /\ i = 2
  /\ returned[1] = Some(TaskResult(tasks[1].module.name, TRUE, FALSE, None, None))
  /\ calls[1].when = 1
  /\ calls[1].apply = 0
  /\ context.state = EmptyMap

\* C6: when the condition returns an error the TaskResult has succeeded =
\* false, changed = false, error equal to the text of the error and no output;
\* the module is not applied and the run halts at that task.
C6_ConditionError ==
  /\ []((pc \in DriverPcs /\ when_ret.k = "Err") =>
          /\ result.v = TaskResult(task.module.name, FALSE, FALSE,
                                   Some(when_ret.e.description), None)
          /\ calls[i].apply = 0)
  /\ [][(pc = "push" /\ when_ret.k = "Err") =>
          pc' = "halted" /\ Len(results') = i]_vars

C6_Witness ==
  /\ pc = "halted"
  /\ calls[i].when = 1
  /\ calls[i].apply = 0
  /\ results[i].error = Some(ENOENT)
  /\ ~results[i].changed

\* C7: when the condition is true and module.apply returns a Response, the
\* TaskResult has succeeded = true, no error, and the changed flag and the
\* output of the Response; the module was applied once.
C7_ApplySuccess ==
  (pc \in DriverPcs /\ when_ret = Ok(TRUE) /\ apply_ret.k = "Ok") =>
    /\ result.v = TaskResult(task.module.name, TRUE, apply_ret.v.changed, None,
                             apply_ret.v.output)
    /\ calls[i].apply = 1

C7_Witness ==
  /\ pc = "insert"
  /\ when_ret = Ok(TRUE)
  /\ apply_ret.k = "Ok"
  /\ apply_ret.v.changed
  /\ apply_ret.v.output.k = "Some"

\* C8 as stated: after a halt context.state is what the outputs of the tasks
\* before the failed one amount to, and in a playbook of three tasks whose
\* second task fails and whose first task produced an output, the state has
\* one entry, under the description of the first task.
C8_AnyOutputIsStored ==
  pc = "halted" =>
    /\ context.state = Committed(Len(results) - 1)
    /\ (Len(tasks) = 3 /\ returned[2].k = "Some" /\ ~returned[2].v.succeeded
          /\ results[1].output.k = "Some") =>
         /\ Len(results) = 2
         /\ DOMAIN context.state = {tasks[1].description}

\* C8, amended: after a halt context.state is what the outputs of the tasks
\* before the failed one amount to, and in a playbook of three tasks whose
\* second task fails and whose first task produced an output that converts to
\* a Value, there are two results and the state has one entry, under the
\* description of the first task.
C8_HaltKeepsCommitted ==
  pc = "halted" =>
    /\ context.state = Committed(Len(results) - 1)
    /\ (Len(tasks) = 3 /\ returned[2].k = "Some" /\ ~returned[2].v.succeeded
          /\ 1 \in Writers(1)) =>
         /\ Len(results) = 2
         /\ DOMAIN context.state = {tasks[1].description}

C8_Witness ==
  /\ pc = "halted"
  /\ Len(tasks) = 3
  /\ Len(results) = 2
  /\ 1 \in Writers(1)
  /\ results[2].changed = FALSE
  /\ DOMAIN context.state = {tasks[1].description}
  /\ context.state[tasks[1].description] = to_value(results[1].output.v).v

\* C9: no failure escapes Task::run: whatever the condition and the module
\* do, the thread does not die inside Task::run.
C9_NoFailureEscapes == pc # "aborted"

\* the task at which the loop is applies a Command
AtCommandApply == pc = "apply" /\ task.module.name = COMMAND

\* C17: the parameters of a task are resolved when the task runs.  The
\* program and the arguments that a Command spawns are its resolvers called
\* inside apply with the context of that moment, and the stack name of a
\* CloudFormation likewise; outside a Command's apply, so for a task that is
\* skipped or not reached, nothing is resolved; with vars {name: x} the
\* argument lazy_format!("hello-{}", var("name")) is "hello-x".
C17_ResolvedAtApply ==
  /\ [][(AtCommandApply /\ pc' # "aborted") =>
          argv' = <<Eval(task.module.command, context).v>>
                    \o [n \in 1..Len(task.module.args) |->
                          Eval(task.module.args[n], context).v]]_vars
  /\ [][(pc = "apply" /\ task.module.name = CLOUDFORMATION
           /\ pc' \in {"cf_update", "cf_create"}) =>
          cf'.stack_name = Eval(task.module.stack_name, context).v]_vars
  /\ [][~AtCommandApply => argv' = argv]_vars
  /\ []((pc \in DriverPcs /\ apply_ret # NotCalled
           /\ task.module = Command(string(<<"c">>),
                                    <<lazy_format(HelloTemplate, <<var(N_name)>>)>>)) =>
          argv = << <<"c">>, <<"h","e","l","l","o","-","x">> >>)

\* the second task was given, as its argument, the stdout that the first
\* task had stored in the state
C17_Witness ==
  /\ pc = "insert"
  /\ i = 2
  /\ task.module.name = COMMAND
  /\ task.module.args = <<with_default(state(D1, K_stdout), string(<<"n">>))>>
  /\ MapHas(context.state, D1)
  /\ context.state[D1] = to_value(results[1].output.v).v
  /\ argv = << <<"c">>, <<"o", "LF">> >>

\* the output of r does not convert to a Value / r does not serialize
ConversionFails(r) == r.output.k = "Some" /\ to_value(r.output.v).k = "Err"
SerializationFails(r) == SerializeResult(r).k = "Err"

\* C18: a failure to convert or to serialize the output of a task is
\* swallowed.  The result stays the successful one that Task::run returned,
\* without error; the conversion failure only leaves the state as it is, the
\* serialization failure only leaves the printed records as they are; the
\* result is pushed and the loop goes on to the next task, or completes.
C18_OutputFailureSwallowed ==
  /\ []((pc \in DriverPcs /\ (ConversionFails(result.v) \/ SerializationFails(result.v))) =>
          /\ result = returned[i]
          /\ result.v.succeeded
          /\ result.v.error = None)
  /\ [][(pc = "insert" /\ ConversionFails(result.v)) =>
          context' = context /\ pc' = "print" /\ result' = result]_vars
  /\ [][(pc = "print" /\ SerializationFails(result.v)) =>
          stdout' = stdout /\ pc' = "push" /\ result' = result]_vars
  /\ [][(pc = "push" /\ (ConversionFails(result.v) \/ SerializationFails(result.v))) =>
          /\ results' = Append(results, result.v)
          /\ IF i < Len(tasks) THEN pc' = "when" /\ i' = i + 1
             ELSE pc' = "completed"]_vars

C18_Witness ==
  /\ pc = "completed"
  /\ Len(results) = 2
  /\ ConversionFails(results[1])
  /\ SerializationFails(results[1])
  /\ results[1].succeeded
  /\ calls[2].apply = 1
  /\ Len(stdout) = 1
  /\ ~MapHas(context.state, tasks[1].description)

\* the status that the poll just made read is neither the desired one nor
\* one of the failure states
PolledOther ==
  /\ cf'.seen.k = "Ok"
  /\ cf'.seen.v # DesiredState(cf.op)
  /\ cf'.seen.v \notin WaitStates(cf.op)

\* C19: the poll loop has no bound.  However many polls were made, a poll
\* that succeeds and reads a status that is neither the desired one nor a
\* failure state leaves wait_for_stack in its loop; while it is there the
\* task has not returned, no result was added and no later task was started,
\* and another such poll is always possible.
C19_NoTimeout ==
  /\ [][(pc = "cf_wait" /\ PolledOther) =>
          /\ pc' = "cf_wait"
          /\ cf'.wait_ret = NotCalled
          /\ UNCHANGED <<i, results, returned, calls, context, stdout>>]_vars
  /\ [](pc = "cf_wait" =>
          /\ cf.wait_ret = NotCalled
          /\ returned[i] = None
          /\ Len(results) = i - 1
          /\ \A n \in (i + 1)..Len(tasks) : calls[n] = NoCalls
          /\ ENABLED (CfWait /\ PolledOther))

C19_Witness ==
  /\ pc = "cf_wait"
  /\ cf.polls = MaxPolls
  /\ cf.seen = Ok("CREATE_IN_PROGRESS")
  /\ i = 1
  /\ Len(tasks) > 1
  /\ calls[2] = NoCalls

\* C20 as stated: wait_for_stack returns Ok exactly when a poll reads the
\* desired status, returns the error carrying the status when a poll reads a
\* failure state, and stops polling in no other case.
C20_StopsOnlyOnStatus ==
  [][pc = "cf_wait" =>
       /\ cf'.wait_ret = Ok(<<>>) <=> cf'.seen = Ok(DesiredState(cf.op))
       /\ (cf'.seen.k = "Ok" /\ cf'.seen.v \in WaitStates(cf.op)) =>
            cf'.wait_ret = Err(CloudFormationError(cf'.seen.v))
       /\ cf'.wait_ret # NotCalled =>
            /\ cf'.seen.k = "Ok"
            /\ cf'.seen.v \in {DesiredState(cf.op)} \cup WaitStates(cf.op)
       /\ cf'.wait_ret = NotCalled => pc' = "cf_wait"]_vars

\* C20, amended: wait_for_stack returns Ok exactly when a poll reads the
\* desired status, returns the error carrying the status when a poll reads a
\* failure state, returns the error of the status query when a poll fails,
\* and stops polling in no other case.
C20_StopsOnStatusOrQueryError ==
  [][pc = "cf_wait" =>
       /\ cf'.wait_ret = Ok(<<>>) <=> cf'.seen = Ok(DesiredState(cf.op))
       /\ (cf'.seen.k = "Ok" /\ cf'.seen.v \in WaitStates(cf.op)) =>
            cf'.wait_ret = Err(CloudFormationError(cf'.seen.v))
       /\ cf'.seen.k = "Err" => cf'.wait_ret = cf'.seen
       /\ cf'.wait_ret # NotCalled =>
            \/ cf'.seen.k = "Err"
            \/ cf'.seen.v \in {DesiredState(cf.op)} \cup WaitStates(cf.op)
       /\ cf'.wait_ret = NotCalled => pc' = "cf_wait"]_vars

\* a poll of wait_for_stack_update failed and ended the wait
C20_Witness ==
  /\ cf.op = "update"
  /\ cf.polls = 2
  /\ cf.seen = Err(StackNotFoundError)
  /\ cf.wait_ret = Err(StackNotFoundError)

\* the condition of the current task is a WhenExecute that was evaluated
WhenExecuted ==
  /\ pc \in (TaskRunPcs \cup DriverPcs) \ {"when"}
  /\ task.when.kind = "WhenExecute"

\* C21: a WhenExecute condition is Ok(true) exactly when its process exited
\* with code 0, Ok(false) exactly when it exited otherwise, and an error
\* exactly when the process could not be spawned or waited for.  After an
\* exit other than 0 the task is skipped and the run goes on; after a spawn
\* failure the TaskResult is a failure carrying the text of the io::Error,
\* the module is not applied and the run halts.
C21_ExternalCheck ==
  /\ [](WhenExecuted =>
          /\ spawned.when.k = "Some"
          /\ when_ret = Ok(TRUE) <=>
               (spawned.when.v.k = "Ok" /\ spawned.when.v.code = Some(0))
          /\ when_ret = Ok(FALSE) <=>
               (spawned.when.v.k = "Ok" /\ spawned.when.v.code # Some(0))
          /\ when_ret.k = "Err" <=> spawned.when.v.k = "Err")
  /\ []((WhenExecuted /\ pc \in DriverPcs /\ spawned.when.v.k = "Ok"
           /\ spawned.when.v.code # Some(0)) =>
          /\ result.v = TaskResult(task.module.name, TRUE, FALSE, None, None)
          /\ calls[i].apply = 0)
  /\ []((WhenExecuted /\ pc \in DriverPcs /\ spawned.when.v.k = "Err") =>
          /\ result.v = TaskResult(task.module.name, FALSE, FALSE,
                                   Some(spawned.when.v.text), None)
          /\ calls[i].apply = 0)
  /\ [][(WhenExecuted /\ pc = "push" /\ spawned.when.v.k = "Ok"
           /\ spawned.when.v.code # Some(0)) =>
          IF i < Len(tasks) THEN pc' = "when" /\ i' = i + 1
          ELSE pc' = "completed"]_vars
  /\ [][(WhenExecuted /\ pc = "push" /\ spawned.when.v.k = "Err") =>
          pc' = "halted"]_vars

\* the first task was skipped after an exit with code 1, the second fails
\* because its condition could not be spawned
C21_Witness ==
  /\ pc = "push"
  /\ i = 2
  /\ tasks[1].when.kind = "WhenExecute"
  /\ results[1] = TaskResult(tasks[1].module.name, TRUE, FALSE, None, None)
  /\ calls[1].apply = 0
  /\ spawned.when = Some(IoError(ENOENT))
  /\ ~result.v.succeeded

\* C22: the frame of a run.  No step changes context.vars or the task list;
\* a step that changes context.state changes it at the description of the
\* current task only: every other entry stays as it is, no entry is removed
\* and no entry appears under another key.
C22_Frame ==
  [][/\ tasks' = tasks
     /\ context'.vars = context.vars
     /\ \A d \in DOMAIN context.state :
          /\ d \in DOMAIN context'.state
          /\ context'.state[d] # context.state[d] =>
               (i \in 1..Len(tasks) /\ d = task.description)
     /\ \A d \in DOMAIN context'.state \ DOMAIN context.state :
          i \in 1..Len(tasks) /\ d = task.description]_vars

\* the third task has overwritten the entry of the first, the entry of the
\* second is in place
C22_Witness ==
  /\ pc = "print"
  /\ i = 3
  /\ tasks[1].description = tasks[3].description
  /\ tasks[2].description # tasks[3].description
  /\ Writers(2) = {1, 2}
  /\ result.v.output.k = "Some"
  /\ to_value(result.v.output.v).k = "Ok"
  /\ to_value(result.v.output.v) # to_value(results[1].output.v)
  /\ context.state[tasks[3].description] = to_value(result.v.output.v).v
  /\ context.state[tasks[2].description] = to_value(results[2].output.v).v
  /\ context.vars = SampleVars

\* C23: in a run the condition of each task is evaluated at most once and
\* its module applied at most once, never without the condition having been
\* evaluated, and destroy of no module is called.
C23_AtMostOnce ==
  \A n \in 1..Len(tasks) :
    /\ calls[n].when <= 1
    /\ calls[n].apply <= calls[n].when
    /\ calls[n].destroy = 0

\* the run has halted on a task whose module was applied and failed
C23_Witness ==
  /\ pc = "halted"
  /\ Len(tasks) = 3
  /\ i = 2
  /\ ~results[2].succeeded
  /\ calls[1] = [when |-> 1, apply |-> 1, destroy |-> 0]
  /\ calls[2] = [when |-> 1, apply |-> 1, destroy |-> 0]
  /\ calls[3] = NoCalls

\* C24: the driver terminates.  If every Task::run that is entered returns,
\* Playbook::run eventually returns: completed, with one successful result
\* per task, or halted, with a failed last result; no more results than tasks
\* are produced and no task after the current one was started.
C24_Terminates ==
  /\ ((pc \in TaskRunPcs) ~> (pc \in DriverPcs)) => <>(pc \in {"completed", "halted"})
  /\ [](/\ Len(results) <= Len(tasks)
        /\ \A n \in (i + 1)..Len(tasks) : calls[n] = NoCalls)
  /\ [](pc = "completed" =>
          Len(results) = Len(tasks) /\ \A n \in 1..Len(results) : results[n].succeeded)
  /\ [](pc = "halted" =>
          /\ ~results[Len(results)].succeeded
          /\ \A n \in 1..(Len(results) - 1) : results[n].succeeded)

\* the run has completed two tasks, the second of which waited for a stack
C24_Witness ==
  /\ pc = "completed"
  /\ Len(results) = 2
  /\ tasks[2].module.name = CLOUDFORMATION
  /\ results[2].changed

\* Command::apply of the current task has returned
CommandApplied ==
  pc \in DriverPcs /\ task.module.name = COMMAND /\ apply_ret # NotCalled

\* C25: Command::apply returns a Response exactly when the process was
\* spawned, stdout and stderr are UTF-8 and the exit code is 0; the Response
\* has changed = true and an output with the exit status, stdout and stderr.
\* An exit other than 0 gives the error whose description is stderr, the
\* result has no output and the driver stores nothing; a spawn failure and
\* output that is not UTF-8 give an error; every error has changed = true.
C25_CommandOutcomes ==
  CommandApplied =>
    /\ spawned.apply.k = "Some"
    /\ LET p == spawned.apply.v
           text == p.k = "Ok" /\ p.stdout.utf8 /\ p.stderr.utf8
       IN /\ apply_ret.k = "Ok" <=> (text /\ p.code = Some(0))
          /\ apply_ret.k = "Ok" =>
               /\ apply_ret.v.changed
               /\ apply_ret.v.output.k = "Some"
               /\ apply_ret.v.output.v.exit_status = 0
               /\ apply_ret.v.output.v.stdout = p.stdout.s
               /\ apply_ret.v.output.v.stderr = p.stderr.s
          /\ (text /\ p.code # Some(0)) =>
               /\ apply_ret = Err(error(TRUE, p.stderr.s))
               /\ result.v.output = None
               /\ context.state = Committed(i - 1)
          /\ (p.k = "Err" \/ ~text) => apply_ret.k = "Err"
          /\ apply_ret.k = "Err" => apply_ret.e.changed

\* the process of the first task exited with code 1 and wrote "e" to stderr
C25_Witness ==
  /\ pc = "push"
  /\ i = 1
  /\ task.module.name = COMMAND
  /\ spawned.apply = Some(Exited(Some(1), Utf8(<<>>), Utf8(<<"e">>)))
  /\ apply_ret = Err(error(TRUE, <<"e">>))
  /\ context.state = EmptyMap

\* pc inside CloudFormation::apply after the first get_stack_info
CfPcs == {"cf_update", "cf_create", "cf_wait", "cf_outputs", "cf_no_update"}

\* C26: CloudFormation::apply queries the stack and then updates it, creates
\* it, or, on another error of the query, returns a module error with changed
\* = false; a create or update that succeeds returns a Response with changed =
\* true, an update with nothing to update a Response with changed = false, and
\* every other failure of create, update or the polling returns a module
\* error with changed = true.
C26_CfApplyFlow ==
  /\ [][(pc = "apply" /\ task.module.name = CLOUDFORMATION) =>
          \/ pc' \in {"cf_update", "cf_create"}
          \/ pc' = "insert" /\ apply_ret'.k = "Err" /\ ~apply_ret'.e.changed]_vars
  /\ [][(pc \in CfPcs /\ pc' \notin CfPcs) =>
          /\ pc' = "insert"
          /\ apply_ret'.k = "Ok" => apply_ret'.v.changed = (pc # "cf_no_update")
          /\ apply_ret'.k = "Err" => apply_ret'.e.changed = (pc # "cf_no_update")]_vars

(***************************************************************************)
(* Properties of the TaskResults                                           *)
(***************************************************************************)
\* the shape of a TaskResult r of task n
Shaped(r, n) ==
  /\ r.error.k = "Some" <=> ~r.succeeded
  /\ ~r.succeeded => r.output = None
  /\ r.module = tasks[n].module.name

\* C27: every TaskResult has an error exactly when it did not succeed, a
\* failed one has no output, its module is the name of the module of its
\* task, and of the results accumulated so far all but the last succeeded.
C27_ResultShape ==
  /\ \A n \in 1..Len(tasks) : returned[n].k = "Some" => Shaped(returned[n].v, n)
  /\ pc \in DriverPcs => Shaped(result.v, i)
  /\ \A n \in 1..Len(results) :
       /\ Shaped(results[n], n)
       /\ n < Len(results) => results[n].succeeded

\* a skipped task, a task with an output and a failed task have their results
C27_Witness ==
  /\ pc = "halted"
  /\ Len(results) = 3
  /\ results[1] = TaskResult(tasks[1].module.name, TRUE, FALSE, None, None)
  /\ calls[1].apply = 0
  /\ results[2].output.k = "Some"
  /\ ~results[3].succeeded
  /\ results[3].error.k = "Some"
  /\ results[3].module = COMMAND

(***************************************************************************)
(* Properties of find                                                      *)
(***************************************************************************)
\* C10: lookup stops on a scalar.  If following the first n segments of the
\* path, with at least one segment left, arrives at a scalar (n = 0: the
\* root is a scalar), find returns Ok of that scalar.
C10_ScalarStopsLookup ==
  fret # NotCalled =>
    \A n \in 0..(Len(Split(fpath)) - 1) :
      LET r == inner(fpath, SubSeq(Split(fpath), 1, n), fobj) IN
      (r.k = "Ok" /\ IsScalar(r.v)) => fret = Ok(r.v)

C10_Witness ==
  /\ fret # NotCalled
  /\ ~IsScalar(fobj)
  /\ Len(Split(fpath)) = 3
  /\ inner(fpath, SubSeq(Split(fpath), 1, 2), fobj) = Ok(VString(<<"b">>))
  /\ fret = Ok(VString(<<"b">>))

\* the Value at which find arrives after the first n segments of fpath
Reached(n) == inner(fpath, SubSeq(Split(fpath), 1, n), fobj)

\* a segment that is a decimal number: one ASCII digit or more
IsDecimal(s) == s # <<>> /\ \A n \in 1..Len(s) : s[n] \in AsciiDigits

\* the number a decimal segment denotes is at least len
DecimalAtLeast(s, len) ==
  Len(StripZeros(s)) > 9 \/ DigitsToNat(StripZeros(s), 0) >= len

\* C11: find of the empty path returns Ok of the root, whatever the root is:
\* a scalar, an Array or an Object.
C11_EmptyPathIsIdentity ==
  (fret # NotCalled /\ fpath = <<>>) => fret = Ok(fobj)

\* C12: the errors of find tell their cause.  Where the lookup arrives at an
\* Array with a segment left, a segment that is not a decimal number gives
\* "array index must be numeric" and a decimal number past the end gives
\* "value not found"; where it arrives at an Object, a segment that is no key
\* gives "value not found"; both errors carry changed = false.
C12_ErrorsByCause ==
  fret # NotCalled =>
    \A n \in 0..(Len(Split(fpath)) - 1) :
      LET r == Reached(n)
          s == Split(fpath)[n + 1]
      IN r.k = "Ok" =>
           /\ (r.v.t = "Array" /\ ~IsDecimal(s)) =>
                fret = Err(error(FALSE, not_array_index(fpath)))
           /\ (r.v.t = "Array" /\ IsDecimal(s) /\ DecimalAtLeast(s, Len(r.v.a))) =>
                fret = Err(error(FALSE, not_found(fpath)))
           /\ (r.v.t = "Object" /\ ~ObjectHas(r.v.o, s)) =>
                fret = Err(error(FALSE, not_found(fpath)))

\* the segments each name a key of the Object or a decimal index inside the
\* Array that the segments before them lead to
RECURSIVE Names(_, _)
Names(parts, v) ==
  \/ parts = <<>>
  \/ /\ parts # <<>>
     /\ v.t = "Object"
     /\ \E n \in 1..Len(v.o) :
          v.o[n][1] = Head(parts) /\ Names(Tail(parts), v.o[n][2])
  \/ /\ parts # <<>>
     /\ v.t = "Array"
     /\ IsDecimal(Head(parts))
     /\ ~DecimalAtLeast(Head(parts), Len(v.a))
     /\ Names(Tail(parts), v.a[DigitsToNat(StripZeros(Head(parts)), 0) + 1])

\* the sub-value that such segments lead to
RECURSIVE Follow(_, _)
Follow(parts, v) ==
  IF parts = <<>> THEN v
  ELSE IF v.t = "Object"
    THEN Follow(Tail(parts),
                v.o[CHOOSE n \in 1..Len(v.o) : v.o[n][1] = Head(parts)][2])
    ELSE Follow(Tail(parts), v.a[DigitsToNat(StripZeros(Head(parts)), 0) + 1])

\* C13: for a path whose segments each name an existing key or a decimal
\* index in range, find returns Ok of the sub-value that following the
\* segments from the root leads to, and the root is left as it was.
C13_ValidPathFindsSubValue ==
  [][FindCall =>
       /\ fobj' = fobj
       /\ Names(Split(fpath), fobj) => fret' = Ok(Follow(Split(fpath), fobj))]_vars

C13_Witness ==
  /\ fobj = TestValue
  /\ fpath = <<"k","2",".","k","1",".","0",".","k","1">>
  /\ Names(Split(fpath), fobj)
  /\ fret = Ok(VString(<<"v","1">>))

(***************************************************************************)
(* Properties of the lazy resolvers                                        *)
(***************************************************************************)
\* C14: resolvers never fail.  Whatever the resolver and the context, the
\* call returns a string; it does not panic.
C14_ResolversNeverFail ==
  lret # NotCalled => lret.k = "Ok"

\* C15: state(description, path) gives the string that find arrives at in
\* context.state[description] when find returns Ok of a String, and the empty
\* string in every other case.
C15_StateResolver ==
  (lret # NotCalled /\ lf.op = "state") =>
    IF /\ MapHas(context.state, lf.task_description)
       /\ find(lf.path, context.state[lf.task_description]).k = "Ok"
       /\ find(lf.path, context.state[lf.task_description]).v.t = "String"
      THEN lret = Ok(find(lf.path, context.state[lf.task_description]).v.s)
      ELSE lret = Ok(<<>>)

\* C16: with_default(f, default) returns what f returns when that is not
\* empty, without evaluating default; when f returns the empty string it
\* returns what default returns; so it is empty only if both are.
C16_WithDefault ==
  (lret # NotCalled /\ lf.op = "with_default") =>
    LET value == Eval(lf.f, context) IN
    /\ (value.k = "Ok" /\ value.v # <<>>) => lret = value
    /\ value = Ok(<<>>) => lret = Eval(lf.default, context)
    /\ lret = Ok(<<>>) =>
         value = Ok(<<>>) /\ Eval(lf.default, context) = Ok(<<>>)

C16_Witness ==
  /\ lf = with_default(state(D1, <<"k">>), var(N_name))
  /\ context.vars = SampleVars
  /\ MapHas(context.state, D1)
  /\ find(<<"k">>, context.state[D1]).k = "Err"
  /\ lret = Ok(<<"x">>)

\* C28: find is total.  Whatever the path and the Value, the call returns
\* Ok of a Value or Err of a lookup error; it does not panic.
C28_FindIsTotal ==
  fret # NotCalled => fret.k \in {"Ok", "Err"}

====
